---- MODULE Spec2Model ----
(***************************************************************************)
(* pull-draftsman: one run of the command-line tool (src/src/index.ts),    *)
(* with the base-branch resolver of the git module in both of its          *)
(* versions (src/src/gh.ts:104-203, ancestry-distance scoring, and         *)
(* src/src/gh.ts:262-292, list order only).                                *)
(*                                                                         *)
(* Strings are sequences of tokens: <<"origin", "/", "main">> is           *)
(* 'origin/main'.  A JavaScript value that may be undefined (or null, or   *)
(* NaN) is a sequence of length 0 or 1: <<>> is undefined, <<v>> is v.     *)
(* The answers of git, gh and the file system are drawn when the code      *)
(* asks for them.  The draft is rendered by the buildPrDraftMarkdown that  *)
(* takes the three parameters run() passes (src/unnamed/part_001).         *)
(***************************************************************************)
EXTENDS Integers, Sequences, FiniteSets

\* ------------------------------------------------------------------ bounds
\* The longest list `git branch -r` answers with.
MaxBranches == 3
\* The longest list `git log` answers with.
MaxCommits == 2

\* ----------------------------------------------------------- JS primitives
None == <<>>
Some(v) == <<v>>

\* String.prototype.startsWith
StartsWith(s, p) == Len(s) >= Len(p) /\ SubSeq(s, 1, Len(p)) = p

\* String.prototype.slice(n)
Slice(s, n) == SubSeq(s, n + 1, Len(s))

\* String.prototype.slice(0, n)
SliceTo(s, n) == SubSeq(s, 1, IF n < Len(s) THEN n ELSE Len(s))

\* String.prototype.includes / Array.prototype.includes
Includes(s, x) == \E i \in DOMAIN s : s[i] = x

\* `${remoteName}/${name}`
FullName(remote, name) == remote \o <<"/">> \o name

\* remoteReference.slice(remoteName.length + 1)
ShortName(remote, ref) == Slice(ref, Len(remote) + 1)

\* if (explicitBase): undefined and '' are falsy
Truthy(opt) == opt # None /\ opt[1] # <<>>

DigitValue(c) ==
  CASE c = "0" -> 0 [] c = "1" -> 1 [] c = "2" -> 2 [] c = "3" -> 3

IsDigit(c) == c \in {"0", "1", "2", "3"}

RECURSIVE LeadingDigits(_, _)
\* the value of the longest prefix of digits of s, after the digits read so far
LeadingDigits(s, acc) ==
  IF s = <<>> \/ ~IsDigit(Head(s)) THEN acc
  ELSE LeadingDigits(Tail(s), 10 * acc + DigitValue(Head(s)))

\* Number.parseInt(s, 10) on a trimmed string: an optional sign, then the
\* longest prefix of digits; NaN (None) when there is no digit.
ParseInt(s) ==
  LET neg  == s # <<>> /\ Head(s) = "-"
      body == IF s # <<>> /\ Head(s) \in {"-", "+"} THEN Tail(s) ELSE s
  IN  IF body = <<>> \/ ~IsDigit(Head(body)) THEN None
      ELSE Some(IF neg THEN 0 - LeadingDigits(body, 0) ELSE LeadingDigits(body, 0))

\* Number.isFinite on the result of parseInt
IsFinite(n) == n # None

\* -------------------------------------------------------- program constants
\* the git module with distance scoring
BASE_BRANCH_CANDIDATES ==
  << <<"stage">>, <<"staging">>, <<"develop">>, <<"dev">>, <<"main">>,
     <<"master">>, <<"release">> >>

\* the git module with list order only
BASE_BRANCH_CANDIDATES_LIST ==
  << <<"main">>, <<"master">>, <<"develop">>, <<"dev">>, <<"stage">>,
     <<"staging">>, <<"release">>, <<"production">>, <<"prod">> >>

\* ------------------------------------------------------------ the inputs
Origin == <<"origin">>
Upstream == <<"up">>

\* the symbolic remote-HEAD pointer line of `git branch -r`
HeadPointer == <<"origin", "/", "HEAD", "->", "origin", "/", "main">>

\* what `git branch -r` may list
RemoteEntries ==
  { FullName(Origin, <<"stage">>), FullName(Origin, <<"main">>),
    FullName(Origin, <<"feat", "/", "x">>), FullName(Origin, <<"fix">>),
    FullName(Upstream, <<"main">>), HeadPointer }

Range(l) == { l[i] : i \in DOMAIN l }

RECURSIVE ListsUpTo(_, _)
\* the duplicate-free lists of at most n members of S
ListsUpTo(S, n) ==
  IF n = 0 THEN {<<>>}
  ELSE LET shorter == ListsUpTo(S, n - 1)
           longest == { l \in shorter : Len(l) = n - 1 }
       IN  shorter \cup
           UNION { { Append(l, e) : e \in S \ Range(l) } : l \in longest }

Listings == ListsUpTo(RemoteEntries, MaxBranches)

\* the values of --base: absent, '', a branch, a missing branch, the
\* text of the pointer line after the remote
BaseOptions ==
  { None, Some(<<>>), Some(<<"main">>), Some(<<"nope">>),
    Some(<<"HEAD", "->", "origin", "/", "main">>) }

\* the branch HEAD is on; None when HEAD is detached
Heads == { None, Some(<<"feat", "/", "x">>), Some(<<"main">>) }

\* what `git remote -v` may list
RemoteLists ==
  { <<>>, <<Origin>>, <<Upstream>>, <<Upstream, Origin>>, <<Origin, Upstream>> }

\* what `git merge-base` may print (trimmed); None when it fails
MergeBaseOutputs == { None, Some(<<>>), Some(<<"c0ffee">>) }

\* what `git rev-list --count` may print (trimmed); None when it fails
CountOutputs ==
  { None, Some(<<>>), Some(<<"x">>), Some(<<"0">>), Some(<<"1">>),
    Some(<<"2">>), Some(<<"-", "1">>), Some(<<"1", "x">>) }

\* what `gh --version` may print; None when the process fails
GhOutputs == { None, Some(<<"gh version">>), Some(<<"GH Version">>), Some(<<"usage">>) }

\* what `git log` may answer with: the k-th newest commit
HashLetters == <<"a", "b", "c", "d", "e", "f">>

LogEntry(k) ==
  [hash    |-> <<HashLetters[k], "1", "b", "2", "c", "3", "d", "4", "e">>,
   message |-> <<"commit ", HashLetters[k]>>]

LogOutputs ==
  { None } \cup { Some([k \in 1..n |-> LogEntry(k)]) : n \in 0..MaxCommits }

\* ----------------------------------------------------------------- gh.ts
ToLowerCase(s) ==
  [i \in DOMAIN s |-> IF s[i] = "GH Version" THEN "gh version" ELSE s[i]]

\* isGhInstalled: out is the answer of `gh --version` (None: the process
\* failed, which the catch turns into false)
IsGhInstalled(out) ==
  IF out = None THEN FALSE
  ELSE Includes(ToLowerCase(out[1]), "gh version")

\* ---------------------------------------------------------------- git.ts
Err(kind, detail) == [kind |-> kind, detail |-> detail]

\* a function's outcome: the value it returns, or the error it throws
Returns(v) == [value |-> Some(v), error |-> None]
Throws(e) == [value |-> None, error |-> Some(e)]

\* getDefaultRemoteName, from the list of remotes
GetDefaultRemoteName(remotes) ==
  IF Len(remotes) = 0 THEN Throws(Err("NoRemotes", <<>>))
  ELSE IF Includes(remotes, Origin) THEN Returns(Origin)
  ELSE Returns(remotes[1])

\* getCurrentBranchName, from statusSummary.current
GetCurrentBranchName(current) ==
  IF current = None THEN Throws(Err("NoCurrentBranch", <<>>))
  ELSE Returns(current[1])

IsRealBranch(name) == ~Includes(name, "->")

\* remoteBranches of the resolver with distance scoring
FilterPointers(all) == SelectSeq(all, IsRealBranch)

\* remoteBranches of the resolver with list order only
KeepAll(all) == all

\* the explicit override without its validation
ResolveExplicit_Unchecked(remote, remoteBranches, explicitBase) ==
  Returns(explicitBase)

\* the explicit override of both resolvers
ResolveExplicit(remote, remoteBranches, explicitBase) ==
  IF ~Includes(remoteBranches, FullName(remote, explicitBase))
  THEN Throws(Err("BaseNotFound", remoteBranches))
  ELSE Returns(explicitBase)

\* 1) the branches of this remote, without the current branch's own
RemoteBranchesForRemote(remote, remoteBranches, currentBranch) ==
  LET OfRemote(name) == StartsWith(name, remote \o <<"/">>)
      NotCurrent(name) == ShortName(remote, name) # currentBranch
  IN  SelectSeq(SelectSeq(remoteBranches, OfRemote), NotCurrent)

\* 2) those with a conventional name
PrioritizedRemoteBranches(remote, forRemote) ==
  LET Conventional(fullName) ==
        Includes(BASE_BRANCH_CANDIDATES, ShortName(remote, fullName))
  IN  SelectSeq(forRemote, Conventional)

Candidates(remote, forRemote) ==
  LET prioritized == PrioritizedRemoteBranches(remote, forRemote)
  IN  IF Len(prioritized) > 0 THEN prioritized ELSE forRemote

\* the comparison turned around
Replaces_Farther(ahead, best) == best = None \/ ahead > best[1].ahead

\* if (!best || ahead < best.ahead)
Replaces(ahead, best) == best = None \/ ahead < best[1].ahead

\* one turn of the loop over the candidates: mergeBase and count are the
\* answers of `git merge-base` and `git rev-list --count` (None: it failed).
\* The result is [best, scored, calls]: the new best, whether the candidate
\* got a finite ahead count, and the number of git queries made.
ScoreCandidate(remote, remoteReference, mergeBase, count, best) ==
  LET shortName == ShortName(remote, remoteReference)
  IN  IF mergeBase = None THEN [best |-> best, scored |-> None, calls |-> 1]
      ELSE IF mergeBase[1] = <<>> THEN [best |-> best, scored |-> None, calls |-> 1]
      ELSE IF count = None THEN [best |-> best, scored |-> None, calls |-> 2]
      ELSE LET ahead == ParseInt(count[1])
           IN  IF ~IsFinite(ahead) THEN [best |-> best, scored |-> None, calls |-> 2]
               ELSE LET distance == [shortName |-> shortName,
                                     remoteRef |-> remoteReference,
                                     ahead     |-> ahead[1]]
                    IN  [best   |-> IF Replaces(ahead[1], best) THEN Some(distance) ELSE best,
                         scored |-> Some(distance),
                         calls  |-> 2]

RECURSIVE FirstPresent(_, _, _)
\* the first name of `names` whose branch is on the remote; None if there is none
FirstPresent(remote, remoteBranches, names) ==
  IF names = <<>> THEN None
  ELSE IF Includes(remoteBranches, FullName(remote, Head(names))) THEN Some(Head(names))
  ELSE FirstPresent(remote, remoteBranches, Tail(names))

\* the fallback that keeps looking after a match, so that the last wins
Fallback_LastPresent(remote, remoteBranches, names) ==
  LET present == { i \in DOMAIN names :
                     Includes(remoteBranches, FullName(remote, names[i])) }
  IN  IF present # {}
      THEN Returns(names[CHOOSE i \in present : \A j \in present : j <= i])
      ELSE Throws(Err("Undetermined", names))

\* 3) the fallback over the conventional names, and the final error
Fallback(remote, remoteBranches, names) ==
  LET found == FirstPresent(remote, remoteBranches, names)
  IN  IF found # None THEN Returns(found[1])
      ELSE Throws(Err("Undetermined", names))

\* what follows the loop over the candidates
AfterScoring(remote, remoteBranches, best) ==
  IF best # None THEN Returns(best[1].shortName)
  ELSE Fallback(remote, remoteBranches, BASE_BRANCH_CANDIDATES)

\* getNewCommits, from logResult.all
GetNewCommits(all) ==
  [i \in DOMAIN all |-> [hash |-> SliceTo(all[i].hash, 7), message |-> all[i].message]]

\* ------------------------------------------------------------ markdown.ts
CommitLines(commits) ==
  IF Len(commits) > 0
  THEN [i \in DOMAIN commits |-> <<"- ">> \o commits[i].hash \o <<" ">> \o commits[i].message]
  ELSE << <<"- (no new commits between base and current branch)">> >>

\* buildPrDraftMarkdown: the lines of the draft
BuildPrDraftMarkdown(branchName, baseBranchName, commits) ==
  << <<"Branch: ">> \o branchName, <<>>,
     <<"Base: ">> \o baseBranchName, <<>>,
     <<"New commits:">>, <<>> >>
  \o CommitLines(commits)
  \o << <<>>, <<"Assignees:">>, <<>>,
        <<"- Placeholder for assignees (not dynamic)">>, <<>>,
        <<"Reviewers:">>, <<>>,
        <<"- Placeholder for reviewers (not dynamic)">>, <<>> >>

\* ---------------------------------------------------------------- index.ts
\* the tokens [^a-zA-Z0-9._-]+ matches
IsUnsafe(c) == c \in {"/", " ", "->"}

RECURSIVE ReplaceUnsafe(_, _)
\* branchName.replaceAll(/[^a-zA-Z0-9._-]+/g, '-'); inRun: the token before
\* this one was unsafe
ReplaceUnsafe(s, inRun) ==
  IF s = <<>> THEN <<>>
  ELSE IF IsUnsafe(Head(s))
       THEN (IF inRun THEN <<>> ELSE <<"-">>) \o ReplaceUnsafe(Tail(s), TRUE)
       ELSE <<Head(s)>> \o ReplaceUnsafe(Tail(s), FALSE)

FileName(branchName) ==
  <<"<Date.now()>", "-pr-draft-">> \o ReplaceUnsafe(branchName, FALSE) \o <<".md">>

\* -------------------------------------------------------------- the state
VARIABLES
  variant,        \* which git module is linked: "distance" or "list"
  optionsBase,    \* options.base
  head,           \* the branch HEAD is on (None: detached)
  pc,             \* where run() is
  steps,          \* the pipeline steps started so far, in order
  exitCode,       \* process.exitCode (None: unset, the process exits with 0)
  errorMessage,   \* the error run().catch logged
  ghInstalled,    \* ghInstalled of run() (None: not yet checked)
  advice,         \* the messages about gh shown so far
  remoteName,     \* remoteName of run()
  remoteAll,      \* remoteSummary.all, as read by the resolver
  remoteBranches, \* remoteBranches of the resolver
  candidates,     \* candidates of the resolver
  idx,            \* the position of the loop in candidates
  best,           \* best of the resolver
  scored,         \* every candidate that got a finite ahead count, in order
  rawCalls,       \* the number of git.raw queries made
  baseBranchName, \* baseBranchName of run()
  branchName,     \* branchName of run()
  commits,        \* commits of run()
  file            \* the file written (None: none)

env == <<variant, optionsBase, head>>
gh == <<ghInstalled, advice>>
frame == <<remoteAll, remoteBranches, candidates, idx, best, scored, rawCalls>>
outcome == <<exitCode, errorMessage>>
locals == <<remoteName, baseBranchName, branchName, commits, file>>
vars == <<env, pc, steps, outcome, gh, frame, locals>>

PipelineOrder ==
  <<"repository check", "remote detection", "fetch", "base resolution",
    "current-branch read", "commit listing", "file write">>

GitError == Err("GitError", <<>>)

Init ==
  /\ variant \in {"distance", "list"}
  /\ optionsBase \in BaseOptions
  /\ head \in Heads
  /\ pc = "gh"
  /\ steps = <<>>
  /\ exitCode = None
  /\ errorMessage = None
  /\ ghInstalled = None
  /\ advice = <<>>
  /\ remoteName = None
  /\ remoteAll = <<>>
  /\ remoteBranches = <<>>
  /\ candidates = <<>>
  /\ idx = 0
  /\ best = None
  /\ scored = <<>>
  /\ rawCalls = 0
  /\ baseBranchName = None
  /\ branchName = None
  /\ commits = None
  /\ file = None

\* run().catch that logs and leaves the exit code alone
Fail_ExitCodeUnset(e) ==
  /\ pc' = "failed"
  /\ errorMessage' = Some(e)
  /\ UNCHANGED exitCode

\* run().catch: the error is logged and the exit code set
Fail(e) ==
  /\ pc' = "failed"
  /\ exitCode' = Some(1)
  /\ errorMessage' = Some(e)

\* the next await of run()
Continue(next) ==
  /\ pc' = next
  /\ UNCHANGED outcome

\* const ghInstalled = await isGhInstalled(), and the message about it
GhCheck ==
  /\ pc = "gh"
  /\ \E out \in GhOutputs :
       LET installed == IsGhInstalled(out)
       IN  /\ ghInstalled' = Some(installed)
           /\ advice' = Append(advice, IF installed THEN "gh is installed"
                                       ELSE "gh is not installed, instructions")
  /\ Continue("repo")
  /\ UNCHANGED <<env, steps, frame, locals>>

\* const git = await createGitClient(process.cwd())
CreateGitClient ==
  /\ pc = "repo"
  /\ steps' = Append(steps, "repository check")
  /\ \E isRepo \in {None, Some(TRUE), Some(FALSE)} :
       IF isRepo = None THEN Fail(GitError)
       ELSE IF ~isRepo[1] THEN Fail(Err("NotARepository", <<>>))
       ELSE Continue("remote")
  /\ UNCHANGED <<env, gh, frame, locals>>

\* const remoteName = await getDefaultRemoteName(git)
DetectRemote ==
  /\ pc = "remote"
  /\ steps' = Append(steps, "remote detection")
  /\ \E remotes \in {None} \cup {Some(l) : l \in RemoteLists} :
       IF remotes = None THEN Fail(GitError) /\ UNCHANGED remoteName
       ELSE LET r == GetDefaultRemoteName(remotes[1])
            IN  IF r.error # None THEN Fail(r.error[1]) /\ UNCHANGED remoteName
                ELSE Continue("fetch") /\ remoteName' = r.value
  /\ UNCHANGED <<env, gh, frame, baseBranchName, branchName, commits, file>>

\* await fetchRemote(git, remoteName)
FetchRemote ==
  /\ pc = "fetch"
  /\ steps' = Append(steps, "fetch")
  /\ \E fetched \in BOOLEAN :
       IF fetched THEN Continue("resolve") ELSE Fail(GitError)
  /\ UNCHANGED <<env, gh, frame, locals>>

\* resolveBaseBranchName returns or throws into run()
ResolverEnds(result) ==
  IF result.error # None
  THEN Fail(result.error[1]) /\ UNCHANGED baseBranchName
  ELSE Continue("current") /\ baseBranchName' = result.value

\* resolveBaseBranchName with distance scoring, up to the loop
ResolveStart ==
  /\ pc = "resolve"
  /\ variant = "distance"
  /\ steps' = Append(steps, "base resolution")
  /\ \E listing \in {None} \cup {Some(l) : l \in Listings}, localOk \in BOOLEAN :
       IF listing = None
       THEN Fail(GitError) /\ UNCHANGED <<baseBranchName, frame>>
       ELSE LET branches == FilterPointers(listing[1])
                currentBranch == IF head = None THEN <<>> ELSE head[1]
                forRemote == RemoteBranchesForRemote(remoteName[1], branches, currentBranch)
            IN  /\ remoteAll' = listing[1]
                /\ remoteBranches' = branches
                /\ UNCHANGED <<best, scored, rawCalls>>
                /\ IF Truthy(optionsBase)
                   THEN /\ ResolverEnds(ResolveExplicit(remoteName[1], branches, optionsBase[1]))
                        /\ UNCHANGED <<candidates, idx>>
                   ELSE IF ~localOk
                   THEN Fail(GitError) /\ UNCHANGED <<baseBranchName, candidates, idx>>
                   ELSE IF Len(forRemote) = 0
                   THEN /\ Fail(Err("NoRemoteBranches", <<>>))
                        /\ UNCHANGED <<baseBranchName, candidates, idx>>
                   ELSE /\ candidates' = Candidates(remoteName[1], forRemote)
                        /\ idx' = 1
                        /\ pc' = "score"
                        /\ UNCHANGED <<outcome, baseBranchName>>
  /\ UNCHANGED <<env, gh, remoteName, branchName, commits, file>>

\* one turn of the loop and, after the last one, the rest of the resolver
ScoreLoop ==
  /\ pc = "score"
  /\ idx <= Len(candidates)
  /\ \E mergeBase \in MergeBaseOutputs, count \in CountOutputs :
       LET r == ScoreCandidate(remoteName[1], candidates[idx], mergeBase, count, best)
       IN  /\ best' = r.best
           /\ scored' = IF r.scored = None THEN scored ELSE Append(scored, r.scored[1])
           /\ rawCalls' = rawCalls + r.calls
           /\ idx' = idx + 1
           /\ IF idx = Len(candidates)
              THEN ResolverEnds(AfterScoring(remoteName[1], remoteBranches, r.best))
              ELSE UNCHANGED <<pc, outcome, baseBranchName>>
  /\ UNCHANGED <<env, steps, gh, remoteAll, remoteBranches, candidates,
                 remoteName, branchName, commits, file>>

\* resolveBaseBranchName with list order only
ResolveByListOrder ==
  /\ pc = "resolve"
  /\ variant = "list"
  /\ steps' = Append(steps, "base resolution")
  /\ \E listing \in {None} \cup {Some(l) : l \in Listings} :
       IF listing = None
       THEN Fail(GitError) /\ UNCHANGED <<baseBranchName, frame>>
       ELSE LET branches == KeepAll(listing[1])
            IN  /\ remoteAll' = listing[1]
                /\ remoteBranches' = branches
                /\ UNCHANGED <<candidates, idx, best, scored, rawCalls>>
                /\ IF Truthy(optionsBase)
                   THEN ResolverEnds(ResolveExplicit(remoteName[1], branches, optionsBase[1]))
                   ELSE ResolverEnds(Fallback(remoteName[1], branches, BASE_BRANCH_CANDIDATES_LIST))
  /\ UNCHANGED <<env, gh, remoteName, branchName, commits, file>>

\* const branchName = await getCurrentBranchName(git); the resolver's
\* locals are gone
ReadCurrentBranch ==
  /\ pc = "current"
  /\ steps' = Append(steps, "current-branch read")
  /\ \E statusOk \in BOOLEAN :
       IF ~statusOk THEN Fail(GitError) /\ UNCHANGED branchName
       ELSE LET r == GetCurrentBranchName(head)
            IN  IF r.error # None THEN Fail(r.error[1]) /\ UNCHANGED branchName
                ELSE Continue("commits") /\ branchName' = r.value
  /\ remoteAll' = <<>>
  /\ remoteBranches' = <<>>
  /\ candidates' = <<>>
  /\ idx' = 0
  /\ best' = None
  /\ scored' = <<>>
  /\ rawCalls' = 0
  /\ UNCHANGED <<env, gh, remoteName, baseBranchName, commits, file>>

\* const commits = await getNewCommits(git, remoteName, baseBranchName)
CollectCommits ==
  /\ pc = "commits"
  /\ steps' = Append(steps, "commit listing")
  /\ \E log \in LogOutputs :
       IF log = None THEN Fail(GitError) /\ UNCHANGED commits
       ELSE Continue("write") /\ commits' = Some(GetNewCommits(log[1]))
  /\ UNCHANGED <<env, gh, frame, remoteName, baseBranchName, branchName, file>>

\* the last step writing the draft only when gh is installed
WriteDraftAs_NeedsGh(installed, newAdvice) ==
  /\ pc = "write"
  /\ steps' = Append(steps, "file write")
  /\ IF installed
     THEN /\ file' = Some([name    |-> FileName(branchName[1]),
                           content |-> BuildPrDraftMarkdown(branchName[1],
                                         baseBranchName[1], commits[1])])
          /\ Continue("done")
          /\ newAdvice = Append(advice, "next step: Copilot with gh")
     ELSE /\ Fail(Err("WriteError", <<>>))
          /\ UNCHANGED file
          /\ newAdvice = Append(advice, "note: gh is not installed")
  /\ UNCHANGED <<env, ghInstalled, frame, remoteName, baseBranchName, branchName, commits>>

\* mkdir, writeFile and the last message, where run() reads ghInstalled as
\* installed and leaves newAdvice as the messages shown
WriteDraftAs(installed, newAdvice) ==
  /\ pc = "write"
  /\ steps' = Append(steps, "file write")
  /\ \E madeDir \in BOOLEAN, written \in BOOLEAN :
       IF madeDir /\ written
       THEN /\ file' = Some([name    |-> FileName(branchName[1]),
                             content |-> BuildPrDraftMarkdown(branchName[1],
                                           baseBranchName[1], commits[1])])
            /\ Continue("done")
            /\ newAdvice = Append(advice, IF installed THEN "next step: Copilot with gh"
                                          ELSE "note: gh is not installed")
       ELSE /\ Fail(Err("WriteError", <<>>))
            /\ UNCHANGED file
            /\ newAdvice = advice
  /\ UNCHANGED <<env, ghInstalled, frame, remoteName, baseBranchName, branchName, commits>>

WriteDraft == WriteDraftAs(ghInstalled[1], advice')

Next ==
  \/ GhCheck
  \/ CreateGitClient
  \/ DetectRemote
  \/ FetchRemote
  \/ ResolveStart
  \/ ScoreLoop
  \/ ResolveByListOrder
  \/ ReadCurrentBranch
  \/ CollectCommits
  \/ WriteDraft

Spec == Init /\ [][Next]_vars

\* ------------------------------------------------------------- the claims
\* the resolver has just returned to run(), or thrown into it
ResolverReturned == pc = "current" /\ baseBranchName # None
ResolverThrew == pc = "failed" /\ steps # <<>> /\ steps[Len(steps)] = "base resolution"
ResolverEnded == ResolverReturned \/ ResolverThrew

\* the resolver got an explicit base, and did not
ExplicitBase == Truthy(optionsBase)

\* the loop over the candidates has run to its end
ScoringDone == variant = "distance" /\ idx > 0 /\ idx > Len(candidates)

\* C1: with an explicit base E and remote R, when the remote branches the
\* resolver holds do not contain R/E the call throws the base-not-found
\* error and returns nothing; when they contain it the call returns E
\* itself, and no merge-base or rev-list query has been made.
ExplicitBaseValidated ==
  (ExplicitBase /\ ResolverEnded /\ errorMessage # Some(GitError)) =>
     IF Includes(remoteBranches, FullName(remoteName[1], optionsBase[1]))
     THEN /\ ResolverReturned
          /\ baseBranchName = optionsBase
          /\ errorMessage = None
          /\ rawCalls = 0 /\ scored = <<>> /\ best = None
     ELSE /\ ResolverThrew
          /\ baseBranchName = None
          /\ errorMessage[1].kind = "BaseNotFound"
          /\ rawCalls = 0

\* C1 witness: an explicit base that is among several remote branches was
\* returned
ExplicitBaseReturned ==
  /\ ExplicitBase /\ ResolverReturned
  /\ baseBranchName = Some(<<"main">>)
  /\ Len(remoteBranches) >= 2

\* C2 (as claimed): a name S returned for remote R is an entry R/S of the
\* list read in this run, and that entry is not the pointer entry.
ResolvedIsListedRealBranch ==
  ResolverReturned =>
     /\ Includes(remoteAll, FullName(remoteName[1], baseBranchName[1]))
     /\ ~Includes(FullName(remoteName[1], baseBranchName[1]), "->")

\* the branches of the remote other than the current one, as a set
BranchesOfRemote ==
  { e \in Range(remoteBranches) :
      /\ StartsWith(e, remoteName[1] \o <<"/">>)
      /\ (head = None \/ ShortName(remoteName[1], e) # head[1]) }

ConventionalOfRemote ==
  { e \in BranchesOfRemote :
      ShortName(remoteName[1], e) \in Range(BASE_BRANCH_CANDIDATES) }

\* C3: without an explicit base, once at least one candidate is scored the
\* resolver returns a scored candidate no scored candidate is closer than;
\* the candidates are the conventional branches of the remote if there are
\* any, and all its branches otherwise (the current branch never).
SmallestAheadWins ==
  (~ExplicitBase /\ ScoringDone /\ scored # <<>>) =>
     /\ ResolverReturned
     /\ Range(candidates) =
          (IF ConventionalOfRemote # {} THEN ConventionalOfRemote ELSE BranchesOfRemote)
     /\ \A i \in DOMAIN scored : scored[i].remoteRef \in Range(candidates)
     /\ \E i \in DOMAIN scored :
          /\ scored[i].shortName = baseBranchName[1]
          /\ \A j \in DOMAIN scored : scored[i].ahead <= scored[j].ahead

\* C3 witness: no conventional branch, two candidates scored, the later
\* one closer, and it was returned
LaterCloserCandidateWins ==
  /\ ~ExplicitBase /\ ScoringDone /\ ResolverReturned
  /\ ConventionalOfRemote = {}
  /\ Len(scored) = 2
  /\ scored[2].ahead < scored[1].ahead
  /\ baseBranchName[1] = scored[2].shortName

\* the conventional name at position i has its branch among remoteBranches
Present(i) ==
  Includes(remoteBranches, FullName(remoteName[1], BASE_BRANCH_CANDIDATES[i]))

\* C4: without an explicit base, with candidates and none of them scored,
\* the resolver returns the first conventional name, in the declared order,
\* whose branch is among the remote branches; with no such name it throws
\* an error that lists every conventional name.
FallbackInDeclaredOrder ==
  (~ExplicitBase /\ ScoringDone /\ scored = <<>>) =>
     IF \E i \in DOMAIN BASE_BRANCH_CANDIDATES : Present(i)
     THEN /\ ResolverReturned
          /\ \E i \in DOMAIN BASE_BRANCH_CANDIDATES :
               /\ baseBranchName[1] = BASE_BRANCH_CANDIDATES[i]
               /\ Present(i)
               /\ \A j \in 1..(i - 1) : ~Present(j)
     ELSE /\ ResolverThrew
          /\ errorMessage[1].kind = "Undetermined"
          /\ errorMessage[1].detail =
               << <<"stage">>, <<"staging">>, <<"develop">>, <<"dev">>, <<"main">>,
                  <<"master">>, <<"release">> >>

\* C4 witness: nothing scored, stage and main both on the remote, and stage
\* (declared before main) returned
FallbackPicksStage ==
  /\ ~ExplicitBase /\ ScoringDone /\ scored = <<>> /\ ResolverReturned
  /\ Present(1) /\ Present(5)
  /\ baseBranchName = Some(<<"stage">>)

IsPrefix(s, t) == Len(s) <= Len(t) /\ SubSeq(t, 1, Len(s)) = s

\* C5: the steps run in the pipeline's order, each at most once; a failed
\* step ends the run with exit code 1, nothing written and no step after
\* it; the file is written only after every step before it succeeded, and
\* then the run ends with the exit code unset (status 0).
PipelineInOrder ==
  /\ IsPrefix(steps, PipelineOrder)
  /\ (errorMessage # None) = (pc = "failed")
  /\ pc = "failed" => /\ exitCode = Some(1)
                      /\ file = None
                      /\ ~ENABLED Next
  /\ file # None => /\ steps = PipelineOrder
                    /\ pc = "done"
                    /\ errorMessage = None
                    /\ remoteName # None /\ baseBranchName # None
                    /\ branchName # None /\ commits # None
  /\ pc = "done" => file # None /\ exitCode = None
  /\ pc \notin {"done", "failed"} => exitCode = None

\* C5 witness: a run that wrote the file
DraftWritten == pc = "done" /\ file # None /\ Len(steps) = 7

\* everything of the run but what the gh check sets and what is shown
\* about gh
pipeline == <<env, steps, outcome, frame, locals>>

\* the last step, had run() read ghInstalled as `installed`: the same but
\* for the message about gh
WriteDraftWith(installed) ==
  \E shown \in {advice, Append(advice, "next step: Copilot with gh"),
                Append(advice, "note: gh is not installed")} :
     WriteDraftAs(installed, shown)

\* C6: whatever `gh --version` answers, or if it fails, the gh check leads
\* to the repository check and changes nothing of the pipeline; no step
\* between the check and the last one reads or sets what the check left;
\* and the last step, the only one that reads it, does to the pipeline
\* (steps, file, exit code) what it would do had the check come out the
\* other way.
GhCheckNeverBlocks ==
  [][ /\ pc = "gh" => /\ pc' = "repo"
                      /\ ghInstalled' \in {Some(TRUE), Some(FALSE)}
                      /\ UNCHANGED pipeline
      /\ pc = "write" => \A installed \in BOOLEAN : WriteDraftWith(installed)
      /\ pc \notin {"gh", "write"} => UNCHANGED gh ]_vars

\* C6 witness: the file was written in a run where gh is not installed
DraftWrittenWithoutGh == pc = "done" /\ file # None /\ ghInstalled = Some(FALSE)

\* the position of a conventional name in the priority list
PriorityIndex(name) ==
  CHOOSE i \in DOMAIN BASE_BRANCH_CANDIDATES : BASE_BRANCH_CANDIDATES[i] = name

\* the scored candidates with the smallest ahead count
Tied ==
  { i \in DOMAIN scored : \A j \in DOMAIN scored : scored[i].ahead <= scored[j].ahead }

\* C7 (as claimed): when the priority filter applied and several scored
\* candidates share the smallest ahead count, the one returned is the one
\* that comes first in the priority list.
TieGoesToPriorityOrder ==
  (~ExplicitBase /\ ScoringDone /\ ResolverReturned
     /\ ConventionalOfRemote # {} /\ Cardinality(Tied) >= 2) =>
     \A i \in Tied :
        PriorityIndex(baseBranchName[1]) <= PriorityIndex(scored[i].shortName)

\* C8 (as claimed): with a detached HEAD the resolver is never invoked.
DetachedHeadStopsBeforeResolver ==
  head = None =>
     /\ ~Includes(steps, "base resolution")
     /\ pc \notin {"score", "current"}
     /\ rawCalls = 0

\* C9 (as claimed): the ahead count of the candidate recorded as best is an
\* integer >= 0 (a candidate with a negative count is skipped).
BestAheadNonNegative ==
  best # None => best[1].ahead >= 0

\* C10 (as claimed): without an explicit base the resolver with distance
\* scoring never returns the current branch's own name.
NeverReturnsCurrentBranch ==
  (variant = "distance" /\ ~ExplicitBase /\ ResolverReturned /\ head # None) =>
     baseBranchName[1] # head[1]

====
